---- MODULE Spec2Model ----
(***************************************************************************)
(* A model of the task store of src/main.py: the tasks table that init_db  *)
(* creates in SQLite and the HTTP handlers create_task, update_task,       *)
(* delete_task, get_tasks, get_stats and search_tasks that read and write  *)
(* it, and the users table with the handler signup.                        *)
(*                                                                         *)
(* Spec runs the handlers one request at a time.  SpecDates does the same  *)
(* with more shapes of due_date and on more than one day.  SpecConc and    *)
(* SpecSignup run the handlers in the threads of the server's thread pool, *)
(* one SQL statement at a time.                                            *)
(*                                                                         *)
(* The handlers of tasks take no identity (none of them depends on         *)
(* get_current_user) and table tasks has no owner column, so requests      *)
(* carry no caller and rows no owner in this model.                        *)
(*                                                                         *)
(* Values.  An Optional[...] field is a set of at most one element: None   *)
(* is {} and a present value v is {v}.  A title, a category and a due_date *)
(* are sequences of one-character strings, so that datetime.strptime and   *)
(* SQLite's text comparison are computed character by character.  A        *)
(* priority is only ever compared for equality and is a string.  The       *)
(* column done holds the integers 0 and 1.                                 *)
(***************************************************************************)
EXTENDS Integers, Sequences, FiniteSets, TLC

VARIABLES
    columns,    \* the column names of table tasks; {} when the table does not exist
    tasks,      \* the rows of table tasks: a function from rowid to row
    seq,        \* the sqlite_sequence entry of tasks (0 when there is none)
    started,    \* init_db has run in this process
    req,        \* the last request handled
    resp,       \* the response to it
    returned,   \* history: the ids returned by successful POST /tasks
    deleted,    \* history: the ids for which DELETE /tasks/{id} returned 200
    today,      \* date.today(): the day the process runs on
    users,      \* the rows of table users: a function from rowid to row
    userSeq,    \* the sqlite_sequence entry of users
    threads     \* the requests in flight, one per thread of the thread pool

vars == <<columns, tasks, seq, started, req, resp, returned, deleted,
          today, users, userSeq, threads>>

\* What the handlers that run one request at a time leave alone.
background == <<today, users, userSeq, threads>>

\* The model stops creating rows once rowid MaxId has been assigned.
MaxId == 2

\* The number of requests the thread pool runs at the same time.
NumThreads == 2

---------------------------------------------------------------------------
(* Optional values and Python truthiness *)

None == {}
Some(x) == {x}
Val(o) == CHOOSE x \in o : TRUE

\* `if task.priority`, `if task.due_date`: None and the empty string are falsy.
\* empty is the empty string of the field's representation, "" or <<>>.
Truthy(o, empty) == o # None /\ Val(o) # empty

Max(S) == CHOOSE x \in S : \A y \in S : y <= x

---------------------------------------------------------------------------
(* datetime.strptime(s, "%Y-%m-%d") *)

Digits == <<"0", "1", "2", "3", "4", "5", "6", "7", "8", "9">>
IsDigit(c) == \E i \in 1..10 : Digits[i] = c
IsNonZero(c) == \E i \in 2..10 : Digits[i] = c
DigitVal(c) == (CHOOSE i \in 1..10 : Digits[i] = c) - 1

\* The character at position i, or "" past the end of s.
At(s, i) == IF i >= 1 /\ i <= Len(s) THEN s[i] ELSE ""

\* The number of characters %m takes at position i when a "-" has to follow:
\* the regular expression 1[0-2]|0[1-9]|[1-9], alternatives tried in order.
MonthLen(s, i) ==
    IF At(s, i) = "1" /\ At(s, i + 1) \in {"0", "1", "2"} /\ At(s, i + 2) = "-" THEN 2
    ELSE IF At(s, i) = "0" /\ IsNonZero(At(s, i + 1)) /\ At(s, i + 2) = "-" THEN 2
    ELSE IF IsNonZero(At(s, i)) /\ At(s, i + 1) = "-" THEN 1
    ELSE 0

\* The number of characters %d takes at position i, the last directive of the
\* format: 3[0-1]|[1-2]\d|0[1-9]|[1-9]| [1-9], the first alternative that matches.
DayLen(s, i) ==
    IF At(s, i) = "3" /\ At(s, i + 1) \in {"0", "1"} THEN 2
    ELSE IF At(s, i) \in {"1", "2"} /\ IsDigit(At(s, i + 1)) THEN 2
    ELSE IF At(s, i) = "0" /\ IsNonZero(At(s, i + 1)) THEN 2
    ELSE IF IsNonZero(At(s, i)) THEN 1
    ELSE IF At(s, i) = " " /\ IsNonZero(At(s, i + 1)) THEN 2
    ELSE 0

\* The number the digits of s[i..i+n-1] spell (a leading blank counts as nothing).
RECURSIVE NumAt(_, _, _)
NumAt(s, i, n) ==
    IF n = 0 THEN 0
    ELSE 10 * NumAt(s, i, n - 1) + (IF IsDigit(s[i + n - 1]) THEN DigitVal(s[i + n - 1]) ELSE 0)

IsLeap(y) == (y % 4 = 0 /\ y % 100 # 0) \/ y % 400 = 0

DaysInMonth(y, m) ==
    IF m = 2 THEN (IF IsLeap(y) THEN 29 ELSE 28)
    ELSE IF m \in {4, 6, 9, 11} THEN 30
    ELSE 31

\* TRUE iff strptime(s, "%Y-%m-%d") returns, FALSE iff it raises ValueError:
\* the pattern \d\d\d\d-%m-%d matches a prefix of s, nothing of s remains after
\* the match, and the numbers make a date (year >= 1, day within the month).
StrptimeOk(s) ==
    /\ \A i \in 1..4 : IsDigit(At(s, i))
    /\ At(s, 5) = "-"
    /\ MonthLen(s, 6) > 0
    /\ LET ml == MonthLen(s, 6)
           dl == DayLen(s, 7 + ml)
       IN  /\ dl > 0
           /\ Len(s) = 6 + ml + dl
           /\ LET y == NumAt(s, 1, 4)
                  m == NumAt(s, 6, ml)
                  d == NumAt(s, 7 + ml, dl)
              IN  y >= 1 /\ d <= DaysInMonth(y, m)

\* The date strptime(s, "%Y-%m-%d") returns when it returns.
StrptimeDate(s) ==
    LET ml == MonthLen(s, 6)
        dl == DayLen(s, 7 + ml)
    IN  [y |-> NumAt(s, 1, 4), m |-> NumAt(s, 6, ml), d |-> NumAt(s, 7 + ml, dl)]

---------------------------------------------------------------------------
(* Requests *)

\* A JSON body for TaskCreate; an Optional field of None is a key the body omits.
Body(title, done, due_date, category, priority) ==
    [title |-> title, done |-> done, due_date |-> due_date,
     category |-> category, priority |-> priority]

T_empty    == <<>>                                                   \* ""
T_a        == <<"a">>                                                \* "a"
C_work     == <<"w", "o", "r", "k">>                                 \* "work"
D_iso      == <<"2", "0", "2", "4", "-", "0", "1", "-", "0", "5">>   \* "2024-01-05"
D_feb30    == <<"2", "0", "2", "4", "-", "0", "2", "-", "3", "0">>   \* "2024-02-30"
D_empty    == <<>>                                                   \* ""

\* The bodies the model sends: the bodies of test_main.py, one body per value of
\* each optional field, and one with every field set.
Bodies ==
    { Body(None,          Some(FALSE), None,             None,         None),
      Body(Some(T_empty), Some(FALSE), None,             None,         None),
      Body(Some(T_a),     None,        None,             None,         None),
      Body(Some(T_a),     Some(TRUE),  None,             None,         None),
      Body(Some(T_a),     None,        Some(D_iso),      None,         None),
      Body(Some(T_a),     None,        Some(D_empty),    None,         None),
      Body(Some(T_a),     None,        Some(D_feb30),    None,         None),
      Body(Some(T_a),     None,        None,             Some(C_work), None),
      Body(Some(T_a),     None,        None,             None,         Some("high")),
      Body(Some(T_a),     None,        None,             None,         Some("")),
      Body(Some(T_a),     None,        None,             None,         Some("urgent")),
      Body(Some(T_a),     Some(TRUE),  Some(D_iso),      Some(C_work), Some("high")) }

D_space    == <<"2", "0", "2", "4", "-", "0", "1", "-", " ", "5">>   \* "2024-01- 5"
D_unpadded == <<"2", "0", "2", "4", "-", "1", "-", "5">>             \* "2024-1-5"
D_late     == <<"2", "0", "2", "4", "-", "0", "1", "-", "2", "0">>   \* "2024-01-20"

\* The bodies SpecDates sends: one per shape of due_date, a task that is done,
\* and one with a category and a priority for the other parameters of GET /tasks.
DateBodies ==
    { Body(Some(T_a), None,       None,             None,         None),
      Body(Some(T_a), None,       Some(D_iso),      None,         None),
      Body(Some(T_a), Some(TRUE), Some(D_iso),      None,         None),
      Body(Some(T_a), None,       Some(D_late),     None,         None),
      Body(Some(T_a), None,       Some(D_space),    None,         None),
      Body(Some(T_a), None,       Some(D_unpadded), None,         None),
      Body(Some(T_a), None,       Some(D_empty),    None,         None),
      Body(Some(T_a), None,       Some(D_feb30),    None,         None),
      Body(Some(T_a), None,       Some(D_iso),      Some(C_work), Some("high")) }

\* The task ids a request names: an id names a stored row, a deleted row or a
\* row not created yet.
TaskIds == 1..MaxId

\* The query parameters of GET /tasks; sort_by is "priority" when the query omits it.
Query(filter_by, category, priority, sort_by, limit, offset) ==
    [filter_by |-> filter_by, category |-> category, priority |-> priority,
     sort_by |-> sort_by, limit |-> limit, offset |-> offset]

NoParams == Query(None, None, None, "priority", None, 0)

Queries ==
    { NoParams,
      Query(Some("overdue"),   None,         None,         "priority", None,    0),
      Query(Some("completed"), None,         None,         "date",     None,    0),
      Query(Some("high"),      None,         Some("high"), "created",  None,    0),
      Query(Some("week"),      Some(C_work), None,         "category", None,    0),
      Query(Some("bogus"),     None,         None,         "bogus",    Some(1), 1) }

\* The queries SpecDates sends: filter_by=overdue with other parameters.
OverdueQueries ==
    { Query(Some("overdue"), None,         None,         "priority", None,    0),
      Query(Some("overdue"), Some(C_work), Some("high"), "date",     None,    0),
      Query(Some("overdue"), None,         None,         "created",  Some(1), 1) }

NoBody == Body(None, None, None, None, None)

Request(op, id, body, query) == [op |-> op, id |-> id, body |-> body, query |-> query]

\* A response: the status code, the detail or message, the task returned (POST,
\* PUT) and the list returned (GET).
Response(status, detail, task, list) ==
    [status |-> status, detail |-> detail, task |-> task, list |-> list]

\* date.today() on the day Spec runs.
TodayDate == [y |-> 2024, m |-> 1, d |-> 10]

\* The days SpecDates runs on.
Days == {[y |-> 2024, m |-> 1, d |-> 3], TodayDate}

\* The threads of the thread pool that runs the handlers, which are plain def
\* functions.
Threads == 1..NumThreads

\* A request in flight: username and password are the fields of signup's body.
ThreadRequest(op, id, body, username, password) ==
    [op |-> op, id |-> id, body |-> body, username |-> username, password |-> password]

NoRequest == ThreadRequest("none", 0, NoBody, "", "")
NoResponse == Response(0, "", None, <<>>)

\* A thread: its request, the statement it runs next, what its SELECT read,
\* and its response once it is done.
Thread(r, pc, read, response) == [req |-> r, pc |-> pc, read |-> read, resp |-> response]

Idle == Thread(NoRequest, "idle", None, NoResponse)

---------------------------------------------------------------------------
(* The database *)

TaskColumns == {"id", "title", "done", "due_date", "category", "priority", "created_at"}
LegacyColumns == {"id", "title", "done"}

Row(title, done, due_date, category, priority) ==
    [title |-> title, done |-> done, due_date |-> due_date,
     category |-> category, priority |-> priority]

\* Mutant of NextRowid: INTEGER PRIMARY KEY without AUTOINCREMENT, which takes
\* one more than the largest rowid the table holds now.
NextRowidNoAutoincrement ==
    Max({0} \cup DOMAIN tasks) + 1

\* INTEGER PRIMARY KEY AUTOINCREMENT: one more than the largest rowid the table
\* has ever held, which sqlite_sequence remembers across deletes.
NextRowid ==
    Max({seq} \cup DOMAIN tasks) + 1

\* INSERT INTO tasks
Insert(row) ==
    /\ tasks' = [i \in DOMAIN tasks \cup {NextRowid} |->
                    IF i \in DOMAIN tasks THEN tasks[i] ELSE row]
    /\ seq' = NextRowid

\* Before the first start the database file is new, or holds the tasks table of
\* an earlier revision, which has no due_date, category and priority columns.
NewProcess ==
    /\ started = FALSE
    /\ req = Request("none", 0, NoBody, NoParams)
    /\ resp = Response(0, "", None, <<>>)
    /\ returned = {}
    /\ deleted = {}
    /\ users = <<>>
    /\ userSeq = 0
    /\ threads = [t \in Threads |-> Idle]

Init ==
    /\ \/ columns = {} /\ tasks = <<>> /\ seq = 0
       \/ /\ columns = LegacyColumns
          /\ tasks = [i \in {1} |-> [title |-> T_a, done |-> 0]]
          /\ seq = 1
    /\ NewProcess
    /\ today = TodayDate

\* init_db, run by the startup event of every process.
InitDb ==
    /\ IF ~ ({"category", "due_date", "priority"} \subseteq columns)
       THEN tasks' = <<>> /\ seq' = 0           \* DROP TABLE IF EXISTS tasks
       ELSE UNCHANGED <<tasks, seq>>
    /\ columns' = TaskColumns                   \* CREATE TABLE IF NOT EXISTS tasks
    /\ started' = TRUE
    /\ req' = Request("init_db", 0, NoBody, NoParams)
    /\ resp' = Response(0, "", None, <<>>)
    /\ UNCHANGED <<returned, deleted>>
    /\ UNCHANGED background

---------------------------------------------------------------------------
(* POST /tasks, PUT /tasks/{id}, DELETE /tasks/{id} *)

ValidPriorities == {"high", "medium", "low"}

\* strptime on the due dates the bodies carry, computed once.
DueDates == UNION {b.due_date : b \in Bodies \cup DateBodies}
Strptime == [s \in DueDates |-> StrptimeOk(s)]

\* The date check both create_task and update_task start with.
InvalidDate(b) == Truthy(b.due_date, <<>>) /\ ~ Strptime[Val(b.due_date)]

\* The priority check both create_task and update_task make next.
InvalidPriority(b) == Truthy(b.priority, "") /\ Val(b.priority) \notin ValidPriorities

\* Mutant of TitleMissing: an empty title counts as a missing one (`if not title`).
TitleMissingOrEmpty(b) == b.title = None \/ b.title = Some(<<>>)

\* TaskCreate's field title: str has no default: a body without it is a 422.
TitleMissing(b) == b.title = None

\* TaskCreate's field done: bool = False.
DoneOf(b) == IF b.done = None THEN FALSE ELSE Val(b.done)

\* int(task.done), and bool(r[2]) on the way back.
IntOfBool(x) == IF x THEN 1 ELSE 0
BoolOfInt(n) == n # 0

\* The dictionary a handler returns.
TaskDict(id, title, done, due_date, category, priority) ==
    [id |-> id, title |-> title, done |-> done, due_date |-> due_date,
     category |-> category, priority |-> priority]

\* `if not task.priority: task.priority = "medium"`
\* Mutant of CreatePriority: no `if not task.priority: task.priority = "medium"`;
\* the INSERT binds None and the column holds NULL.
CreatePriorityNoDefault(b) == b.priority

CreatePriority(b) == IF Truthy(b.priority, "") THEN b.priority ELSE Some("medium")

\* POST /tasks
CreateTask(b) ==
    /\ started
    /\ req' = Request("POST", 0, b, NoParams)
    /\ IF TitleMissing(b)
       THEN /\ resp' = Response(422, "field required", None, <<>>)
            /\ UNCHANGED <<tasks, seq, returned>>
       ELSE IF InvalidDate(b)
       THEN /\ resp' = Response(400, "Invalid date format. Use YYYY-MM-DD", None, <<>>)
            /\ UNCHANGED <<tasks, seq, returned>>
       ELSE IF InvalidPriority(b)
       THEN /\ resp' = Response(400, "Invalid priority. Use: high, medium, low", None, <<>>)
            /\ UNCHANGED <<tasks, seq, returned>>
       ELSE LET priority == CreatePriority(b)
            IN  /\ NextRowid <= MaxId
                /\ Insert(Row(Val(b.title), IntOfBool(DoneOf(b)), b.due_date,
                              b.category, priority))
                /\ resp' = Response(200, "",
                                    Some(TaskDict(NextRowid, Val(b.title), DoneOf(b),
                                                  b.due_date, b.category, priority)),
                                    <<>>)
                /\ returned' = returned \cup {NextRowid}
    /\ UNCHANGED <<columns, started, deleted>>
    /\ UNCHANGED background

\* The priority update_task writes: the body's, or when the body has none the
\* stored one (`existing[0] or "medium"`), or "medium" when there is no row.
UpdatePriority(id, b) ==
    IF b.priority = None
    THEN IF id \in DOMAIN tasks
         THEN (IF Truthy(tasks[id].priority, "") THEN tasks[id].priority ELSE Some("medium"))
         ELSE Some("medium")
    ELSE b.priority

\* Mutant of UpdateTask: no `Ensure the task exists` check; the UPDATE statement
\* changes no row when the id is not in the table, and the handler returns 200.
UpdateTaskUnchecked(id, b) ==
    /\ started
    /\ req' = Request("PUT", id, b, NoParams)
    /\ IF TitleMissing(b)
       THEN /\ resp' = Response(422, "field required", None, <<>>)
            /\ UNCHANGED tasks
       ELSE IF InvalidDate(b)
       THEN /\ resp' = Response(400, "Invalid date format. Use YYYY-MM-DD", None, <<>>)
            /\ UNCHANGED tasks
       ELSE IF InvalidPriority(b)
       THEN /\ resp' = Response(400, "Invalid priority. Use: high, medium, low", None, <<>>)
            /\ UNCHANGED tasks
       ELSE LET priority == UpdatePriority(id, b)
            IN  /\ tasks' = [i \in DOMAIN tasks |->
                                IF i = id
                                THEN Row(Val(b.title), IntOfBool(DoneOf(b)), b.due_date,
                                         b.category, priority)
                                ELSE tasks[i]]
                /\ resp' = Response(200, "",
                                    Some(TaskDict(id, Val(b.title), DoneOf(b), b.due_date,
                                                  b.category, priority)),
                                    <<>>)
    /\ UNCHANGED <<columns, seq, started, returned, deleted>>
    /\ UNCHANGED background

\* Mutant of UpdateTask: a partial update, which writes only the fields the body
\* carries and keeps the stored done, due_date and category otherwise.
UpdateTaskKeepsOmitted(id, b) ==
    /\ started
    /\ req' = Request("PUT", id, b, NoParams)
    /\ IF TitleMissing(b)
       THEN /\ resp' = Response(422, "field required", None, <<>>)
            /\ UNCHANGED tasks
       ELSE IF InvalidDate(b)
       THEN /\ resp' = Response(400, "Invalid date format. Use YYYY-MM-DD", None, <<>>)
            /\ UNCHANGED tasks
       ELSE IF InvalidPriority(b)
       THEN /\ resp' = Response(400, "Invalid priority. Use: high, medium, low", None, <<>>)
            /\ UNCHANGED tasks
       ELSE IF id \notin DOMAIN tasks
       THEN /\ resp' = Response(404, "Task not found", None, <<>>)
            /\ UNCHANGED tasks
       ELSE LET priority == UpdatePriority(id, b)
                done     == IF b.done = None THEN BoolOfInt(tasks[id].done) ELSE Val(b.done)
                due_date == IF b.due_date = None THEN tasks[id].due_date ELSE b.due_date
                category == IF b.category = None THEN tasks[id].category ELSE b.category
            IN  /\ tasks' = [tasks EXCEPT ![id] =
                                Row(Val(b.title), IntOfBool(done), due_date, category, priority)]
                /\ resp' = Response(200, "",
                                    Some(TaskDict(id, Val(b.title), done, due_date,
                                                  category, priority)),
                                    <<>>)
    /\ UNCHANGED <<columns, seq, started, returned, deleted>>
    /\ UNCHANGED background

\* PUT /tasks/{id}
UpdateTask(id, b) ==
    /\ started
    /\ req' = Request("PUT", id, b, NoParams)
    /\ IF TitleMissing(b)
       THEN /\ resp' = Response(422, "field required", None, <<>>)
            /\ UNCHANGED tasks
       ELSE IF InvalidDate(b)
       THEN /\ resp' = Response(400, "Invalid date format. Use YYYY-MM-DD", None, <<>>)
            /\ UNCHANGED tasks
       ELSE IF InvalidPriority(b)
       THEN /\ resp' = Response(400, "Invalid priority. Use: high, medium, low", None, <<>>)
            /\ UNCHANGED tasks
       ELSE IF id \notin DOMAIN tasks
       THEN /\ resp' = Response(404, "Task not found", None, <<>>)
            /\ UNCHANGED tasks
       ELSE LET priority == UpdatePriority(id, b)
            IN  /\ tasks' = [tasks EXCEPT ![id] =
                                Row(Val(b.title), IntOfBool(DoneOf(b)), b.due_date,
                                    b.category, priority)]
                /\ resp' = Response(200, "",
                                    Some(TaskDict(id, Val(b.title), DoneOf(b), b.due_date,
                                                  b.category, priority)),
                                    <<>>)
    /\ UNCHANGED <<columns, seq, started, returned, deleted>>
    /\ UNCHANGED background

\* Mutant of DeleteTask: no `Verificar que existe` check; the handler returns 200
\* whether or not the DELETE statement removed a row.
DeleteTaskUnchecked(id) ==
    /\ started
    /\ req' = Request("DELETE", id, NoBody, NoParams)
    /\ tasks' = [i \in DOMAIN tasks \ {id} |-> tasks[i]]
    /\ resp' = Response(200, "deleted successfully", None, <<>>)
    /\ deleted' = deleted \cup {id}
    /\ UNCHANGED <<columns, seq, started, returned>>
    /\ UNCHANGED background

\* Mutant of DeleteTask: the DELETE statement has lost its WHERE clause.
DeleteTaskEveryRow(id) ==
    /\ started
    /\ req' = Request("DELETE", id, NoBody, NoParams)
    /\ IF id \notin DOMAIN tasks
       THEN /\ resp' = Response(404, "Task not found", None, <<>>)
            /\ UNCHANGED <<tasks, deleted>>
       ELSE /\ tasks' = <<>>
            /\ resp' = Response(200, "deleted successfully", None, <<>>)
            /\ deleted' = deleted \cup {id}
    /\ UNCHANGED <<columns, seq, started, returned>>
    /\ UNCHANGED background

\* DELETE /tasks/{id}
DeleteTask(id) ==
    /\ started
    /\ req' = Request("DELETE", id, NoBody, NoParams)
    /\ IF id \notin DOMAIN tasks
       THEN /\ resp' = Response(404, "Task not found", None, <<>>)
            /\ UNCHANGED <<tasks, deleted>>
       ELSE /\ tasks' = [i \in DOMAIN tasks \ {id} |-> tasks[i]]
            /\ resp' = Response(200, "deleted successfully", None, <<>>)
            /\ deleted' = deleted \cup {id}
    /\ UNCHANGED <<columns, seq, started, returned>>
    /\ UNCHANGED background

---------------------------------------------------------------------------
(* GET /tasks *)

\* The characters of the model in ASCII order: SQLite compares TEXT with memcmp.
Ascii == <<" ", "-", "/", "0", "1", "2", "3", "4", "5", "6", "7", "8", "9",
           "a", "b", "c", "d", "e", "f", "g", "h", "i", "j", "k", "l", "m",
           "n", "o", "p", "q", "r", "s", "t", "u", "v", "w", "x", "y", "z">>
Code(c) == CHOOSE i \in 1..Len(Ascii) : Ascii[i] = c

\* a < b for two TEXT values: at the first position where they differ a has the
\* smaller character, or a ends there.
TextLess(a, b) ==
    \E k \in 1..Len(b) :
        /\ \A i \in 1..(k - 1) : i <= Len(a) /\ a[i] = b[i]
        /\ (k > Len(a) \/ Code(a[k]) < Code(b[k]))

\* a < b in an ORDER BY ... ASC, where NULL sorts before every value.
OptLess(a, b) ==
    \/ a = None /\ b # None
    \/ a # None /\ b # None /\ TextLess(Val(a), Val(b))

\* str() of a date.
Pad2(n) == <<Digits[(n \div 10) + 1], Digits[(n % 10) + 1]>>
DateStr(dt) ==
    <<Digits[(dt.y \div 1000) + 1], Digits[((dt.y \div 100) % 10) + 1],
      Digits[((dt.y \div 10) % 10) + 1], Digits[(dt.y % 10) + 1]>>
    \o <<"-">> \o Pad2(dt.m) \o <<"-">> \o Pad2(dt.d)

\* dt + timedelta(days=n)
RECURSIVE AddDays(_, _)
AddDays(dt, n) ==
    IF n = 0 THEN dt
    ELSE IF dt.d < DaysInMonth(dt.y, dt.m) THEN AddDays([dt EXCEPT !.d = dt.d + 1], n - 1)
    ELSE IF dt.m < 12 THEN AddDays([dt EXCEPT !.m = dt.m + 1, !.d = 1], n - 1)
    ELSE AddDays([y |-> dt.y + 1, m |-> 1, d |-> 1], n - 1)

Today == DateStr(today)
WeekEnd == DateStr(AddDays(today, 7))

\* The WHERE clause get_tasks builds; a comparison with a NULL column is not true.
Matches(q, r) ==
    /\ IF q.filter_by = Some("overdue")
       THEN r.due_date # None /\ TextLess(Val(r.due_date), Today) /\ r.done = 0
       ELSE IF q.filter_by = Some("today")
       THEN r.due_date = Some(Today)
       ELSE IF q.filter_by = Some("week")
       THEN /\ r.due_date # None
            /\ ~ TextLess(Val(r.due_date), Today)
            /\ ~ TextLess(WeekEnd, Val(r.due_date))
       ELSE IF q.filter_by = Some("completed") THEN r.done = 1
       ELSE IF q.filter_by = Some("pending") THEN r.done = 0
       ELSE IF q.filter_by \in {Some("high"), Some("medium"), Some("low")}
       THEN r.priority = q.filter_by
       ELSE TRUE
    /\ Truthy(q.category, <<>>) => r.category = q.category
    /\ Truthy(q.priority, "") => r.priority = q.priority

\* CASE priority WHEN 'high' THEN 1 WHEN 'medium' THEN 2 WHEN 'low' THEN 3 ELSE 4 END
PriorityRank(p) ==
    IF p = Some("high") THEN 1
    ELSE IF p = Some("medium") THEN 2
    ELSE IF p = Some("low") THEN 3
    ELSE 4

\* `column IS NULL` as an ORDER BY term: 0 for a value, 1 for NULL.
IsNull(o) == IF o = None THEN 1 ELSE 0

\* Mutant of Before: the ORDER BY clause is dropped and rows come in rowid order.
BeforeByRowid(q, i, j) == i < j

\* Row i comes before row j in the result of get_tasks.  Rows the ORDER BY clause
\* does not tell apart come out in rowid order, the order of SQLite's table scan.
Before(q, i, j) ==
    LET a == tasks[i]
        b == tasks[j]
    IN  IF q.sort_by = "date"
        THEN \/ IsNull(a.due_date) < IsNull(b.due_date)
             \/ /\ IsNull(a.due_date) = IsNull(b.due_date)
                /\ \/ OptLess(a.due_date, b.due_date)
                   \/ a.due_date = b.due_date /\ i > j
        ELSE IF q.sort_by = "category"
        THEN \/ IsNull(a.category) < IsNull(b.category)
             \/ /\ IsNull(a.category) = IsNull(b.category)
                /\ \/ OptLess(a.category, b.category)
                   \/ /\ a.category = b.category
                      /\ \/ OptLess(a.due_date, b.due_date)
                         \/ a.due_date = b.due_date /\ i < j
        ELSE IF q.sort_by = "priority"
        THEN \/ PriorityRank(a.priority) < PriorityRank(b.priority)
             \/ /\ PriorityRank(a.priority) = PriorityRank(b.priority)
                /\ \/ OptLess(a.due_date, b.due_date)
                   \/ a.due_date = b.due_date /\ i < j
        ELSE IF q.sort_by = "created"
        THEN i > j
        ELSE i < j

\* The ids of S in the order Before gives them.
RECURSIVE Sorted(_, _)
Sorted(q, S) ==
    IF S = {} THEN <<>>
    ELSE LET first == CHOOSE i \in S : \A j \in S \ {i} : Before(q, i, j)
         IN  <<first>> \o Sorted(q, S \ {first})

\* LIMIT ? OFFSET ?, appended only when the query has a limit.
Page(q, ids) ==
    IF q.limit = None THEN ids
    ELSE SubSeq(ids, q.offset + 1,
                IF q.offset + Val(q.limit) < Len(ids) THEN q.offset + Val(q.limit) ELSE Len(ids))

\* The rows get_tasks selects, as ids in result order.
Selected(q) == Page(q, Sorted(q, {i \in DOMAIN tasks : Matches(q, tasks[i])}))

\* The list get_tasks returns.
TaskList(q) ==
    LET ids == Selected(q)
    IN  [k \in 1..Len(ids) |->
            TaskDict(ids[k], tasks[ids[k]].title, BoolOfInt(tasks[ids[k]].done),
                     tasks[ids[k]].due_date, tasks[ids[k]].category,
                     tasks[ids[k]].priority)]

\* GET /tasks
GetTasks(q) ==
    /\ started
    /\ req' = Request("GET", 0, NoBody, q)
    /\ resp' = Response(200, "", None, TaskList(q))
    /\ UNCHANGED <<columns, tasks, seq, started, returned, deleted>>
    /\ UNCHANGED background

---------------------------------------------------------------------------
(* GET /stats *)

\* SELECT COUNT(*) FROM tasks WHERE ..., for the rows S the condition selects.
Count(S) == Cardinality(S)

\* dict(SELECT category, COUNT(*) FROM tasks WHERE category IS NOT NULL GROUP BY category)
CategoryCounts ==
    LET keys == {Val(tasks[i].category) : i \in {j \in DOMAIN tasks : tasks[j].category # None}}
    IN  [k \in keys |-> Cardinality({i \in DOMAIN tasks : tasks[i].category = Some(k)})]

\* dict(SELECT priority, COUNT(*) FROM tasks WHERE priority IS NOT NULL GROUP BY priority)
PriorityCounts ==
    LET keys == {Val(tasks[i].priority) : i \in {j \in DOMAIN tasks : tasks[j].priority # None}}
    IN  [k \in keys |-> Cardinality({i \in DOMAIN tasks : tasks[i].priority = Some(k)})]

\* round(n / d, 0) for naturals: Python rounds a half to the even neighbour.
RoundDiv(n, d) ==
    LET q == n \div d
        r == n % d
    IN  IF 2 * r > d THEN q + 1
        ELSE IF 2 * r = d THEN q + (q % 2)
        ELSE q

\* round(completed / total * 100, 2) if total > 0 else 0, in hundredths of a
\* percent: 3333 is 33.33.
CompletionRate(completed, total) ==
    IF total > 0 THEN RoundDiv(completed * 10000, total) ELSE 0

\* The dict get_stats returns.
Stats ==
    LET total     == Count(DOMAIN tasks)
        completed == Count({i \in DOMAIN tasks : tasks[i].done = 1})
        pending   == Count({i \in DOMAIN tasks : tasks[i].done = 0})
        overdue   == Count({i \in DOMAIN tasks :
                               /\ tasks[i].due_date # None
                               /\ TextLess(Val(tasks[i].due_date), Today)
                               /\ tasks[i].done = 0})
        high      == Count({i \in DOMAIN tasks :
                               tasks[i].priority = Some("high") /\ tasks[i].done = 0})
    IN  [total_tasks         |-> total,
         completed_tasks     |-> completed,
         pending_tasks       |-> pending,
         overdue_tasks       |-> overdue,
         high_priority_tasks |-> high,
         completion_rate     |-> CompletionRate(completed, total),
         categories          |-> CategoryCounts,
         priorities          |-> PriorityCounts]

\* Mutant of GetStats: completed / total * 100 without the test `total > 0`,
\* which raises ZeroDivisionError on an empty table; the request ends in a 500.
GetStatsUnguarded ==
    /\ started
    /\ req' = Request("GET /stats", 0, NoBody, NoParams)
    /\ resp' = IF Cardinality(DOMAIN tasks) = 0
               THEN Response(500, "Internal Server Error", None, <<>>)
               ELSE Response(200, "", Some(Stats), <<>>)
    /\ UNCHANGED <<columns, tasks, seq, started, returned, deleted>>
    /\ UNCHANGED background

\* GET /stats: the dict goes where a handler that returns a task puts the task.
GetStats ==
    /\ started
    /\ req' = Request("GET /stats", 0, NoBody, NoParams)
    /\ resp' = Response(200, "", Some(Stats), <<>>)
    /\ UNCHANGED <<columns, tasks, seq, started, returned, deleted>>
    /\ UNCHANGED background

---------------------------------------------------------------------------
(* GET /search *)

\* The parameters of GET /search; in_title and in_category are true and offset
\* is 0 when the query omits them.
SearchQuery(q, in_title, in_category, limit, offset) ==
    [q |-> q, in_title |-> in_title, in_category |-> in_category,
     limit |-> limit, offset |-> offset]

SearchQueries ==
    { SearchQuery(<<"a">>, TRUE,  TRUE,  None,    0),
      SearchQuery(<<"w">>, FALSE, TRUE,  None,    0),
      SearchQuery(<<"_">>, TRUE,  FALSE, None,    0),
      SearchQuery(<<>>,    TRUE,  TRUE,  Some(1), 1),
      SearchQuery(<<"a">>, FALSE, FALSE, None,    0) }

\* LIKE compares the letters of ASCII without regard to case.
Upper == <<"A", "B", "C", "D", "E", "F", "G", "H", "I", "J", "K", "L", "M",
           "N", "O", "P", "Q", "R", "S", "T", "U", "V", "W", "X", "Y", "Z">>
Lower == <<"a", "b", "c", "d", "e", "f", "g", "h", "i", "j", "k", "l", "m",
           "n", "o", "p", "q", "r", "s", "t", "u", "v", "w", "x", "y", "z">>
Fold(c) ==
    IF \E i \in 1..Len(Upper) : Upper[i] = c
    THEN Lower[CHOOSE i \in 1..Len(Upper) : Upper[i] = c]
    ELSE c

\* text LIKE pattern: % stands for any run of characters, _ for any one.
RECURSIVE Like(_, _)
Like(text, pattern) ==
    IF pattern = <<>> THEN text = <<>>
    ELSE IF Head(pattern) = "%"
    THEN \/ Like(text, Tail(pattern))
         \/ text # <<>> /\ Like(Tail(text), pattern)
    ELSE /\ text # <<>>
         /\ (Head(pattern) = "_" \/ Fold(Head(pattern)) = Fold(Head(text)))
         /\ Like(Tail(text), Tail(pattern))

\* f"%{q}%"
SearchPattern(sq) == <<"%">> \o sq.q \o <<"%">>

\* The WHERE clause of search_tasks, when it has a condition; NULL LIKE ? is
\* not true.
SearchMatches(sq, r) ==
    \/ sq.in_title /\ Like(r.title, SearchPattern(sq))
    \/ sq.in_category /\ r.category # None /\ Like(Val(r.category), SearchPattern(sq))

\* ORDER BY done ASC, priority = 'high' DESC: in a DESC term 1 comes first,
\* then 0, then NULL.
HighKey(p) == IF p = None THEN 2 ELSE IF p = Some("high") THEN 0 ELSE 1

SearchBefore(i, j) ==
    \/ tasks[i].done < tasks[j].done
    \/ /\ tasks[i].done = tasks[j].done
       /\ \/ HighKey(tasks[i].priority) < HighKey(tasks[j].priority)
          \/ HighKey(tasks[i].priority) = HighKey(tasks[j].priority) /\ i < j

RECURSIVE SearchSorted(_)
SearchSorted(S) ==
    IF S = {} THEN <<>>
    ELSE LET first == CHOOSE i \in S : \A j \in S \ {i} : SearchBefore(i, j)
         IN  <<first>> \o SearchSorted(S \ {first})

\* The list results of search_tasks.
SearchResults(sq) ==
    LET ids == Page(sq, SearchSorted({i \in DOMAIN tasks : SearchMatches(sq, tasks[i])}))
    IN  [k \in 1..Len(ids) |->
            TaskDict(ids[k], tasks[ids[k]].title, BoolOfInt(tasks[ids[k]].done),
                     tasks[ids[k]].due_date, tasks[ids[k]].category,
                     tasks[ids[k]].priority)]

\* GET /search.  With in_title and in_category both false the statement reads
\* `... WHERE () ORDER BY ...`, which SQLite refuses: cur.execute raises
\* sqlite3.OperationalError, no handler catches it, and the request ends in a
\* 500.  Otherwise the dict {query, results_count} goes where a handler that
\* returns a task puts the task, and results goes where get_tasks puts its list.
SearchTasks(sq) ==
    /\ started
    /\ req' = Request("GET /search", 0, NoBody, sq)
    /\ resp' = IF ~ sq.in_title /\ ~ sq.in_category
               THEN Response(500, "Internal Server Error", None, <<>>)
               ELSE LET results == SearchResults(sq)
                    IN  Response(200, "",
                                 Some([query |-> sq.q, results_count |-> Len(results)]),
                                 results)
    /\ UNCHANGED <<columns, tasks, seq, started, returned, deleted>>
    /\ UNCHANGED background

Next ==
    \/ InitDb
    \/ \E b \in Bodies : CreateTask(b)
    \/ \E id \in TaskIds, b \in Bodies : UpdateTask(id, b)
    \/ \E id \in TaskIds : DeleteTask(id)
    \/ \E q \in Queries : GetTasks(q)
    \/ GetStats
    \/ \E sq \in SearchQueries : SearchTasks(sq)

Spec == Init /\ [][Next]_vars

---------------------------------------------------------------------------
(* The handlers in the thread pool, one SQL statement at a time.              *)
(*                                                                            *)
(* Each handler opens its own connection.  The sqlite3 module runs a SELECT   *)
(* outside any transaction and begins one before an INSERT, UPDATE or DELETE, *)
(* which the handler commits right after: a step is one SELECT with its       *)
(* fetchone, or one writing statement with its commit, and between two steps  *)
(* of a thread the other threads run.                                         *)

\* What the threads leave alone.
aside == <<columns, started, req, resp, returned, deleted, today>>

\* The bodies the threads send.
ConcBodies ==
    { Body(Some(T_a), None,       None, None, None),
      Body(Some(T_a), Some(TRUE), None, None, Some("high")) }

ConcRequests ==
    {ThreadRequest("POST", 0, b, "", "") : b \in ConcBodies}
    \cup {ThreadRequest("PUT", id, b, "", "") : id \in TaskIds, b \in ConcBodies}
    \cup {ThreadRequest("DELETE", id, NoBody, "", "") : id \in TaskIds}

\* The process starts once, before it serves requests.
Startup == ~ started /\ InitDb

\* Thread t, which serves no request, takes request r.
Receive(t, r) ==
    /\ started
    /\ threads[t].pc \in {"idle", "done"}
    /\ threads' = [threads EXCEPT ![t] = Thread(r, "start", None, NoResponse)]
    /\ UNCHANGED <<aside, tasks, seq, users, userSeq>>

\* Thread t ends its request with the response.
Respond(t, response) ==
    threads' = [threads EXCEPT ![t] = Thread(threads[t].req, "done", None, response)]

\* create_task in thread t: the checks, the INSERT and its commit.
T_CreateTask(t) ==
    LET b == threads[t].req.body
    IN  /\ threads[t].pc = "start" /\ threads[t].req.op = "POST"
        /\ IF TitleMissing(b)
           THEN Respond(t, Response(422, "field required", None, <<>>))
                /\ UNCHANGED <<tasks, seq>>
           ELSE IF InvalidDate(b)
           THEN Respond(t, Response(400, "Invalid date format. Use YYYY-MM-DD", None, <<>>))
                /\ UNCHANGED <<tasks, seq>>
           ELSE IF InvalidPriority(b)
           THEN Respond(t, Response(400, "Invalid priority. Use: high, medium, low", None, <<>>))
                /\ UNCHANGED <<tasks, seq>>
           ELSE /\ NextRowid <= MaxId
                /\ Insert(Row(Val(b.title), IntOfBool(DoneOf(b)), b.due_date, b.category,
                              CreatePriority(b)))
                /\ Respond(t, Response(200, "",
                                       Some(TaskDict(NextRowid, Val(b.title), DoneOf(b),
                                                     b.due_date, b.category,
                                                     CreatePriority(b))),
                                       <<>>))
        /\ UNCHANGED <<aside, users, userSeq>>

\* update_task in thread t, up to `Preserve existing priority if none
\* provided`: the checks and SELECT priority.  The thread keeps the priority it
\* will write.
T_UpdateBegin(t) ==
    LET b  == threads[t].req.body
        id == threads[t].req.id
    IN  /\ threads[t].pc = "start" /\ threads[t].req.op = "PUT"
        /\ IF TitleMissing(b)
           THEN Respond(t, Response(422, "field required", None, <<>>))
           ELSE IF InvalidDate(b)
           THEN Respond(t, Response(400, "Invalid date format. Use YYYY-MM-DD", None, <<>>))
           ELSE IF InvalidPriority(b)
           THEN Respond(t, Response(400, "Invalid priority. Use: high, medium, low", None, <<>>))
           ELSE threads' = [threads EXCEPT ![t] =
                               Thread(threads[t].req, "exists", UpdatePriority(id, b),
                                      NoResponse)]
        /\ UNCHANGED <<aside, tasks, seq, users, userSeq>>

\* update_task in thread t: `Ensure the task exists`, SELECT id and the 404.
T_UpdateExists(t) ==
    /\ threads[t].pc = "exists" /\ threads[t].req.op = "PUT"
    /\ IF threads[t].req.id \notin DOMAIN tasks
       THEN Respond(t, Response(404, "Task not found", None, <<>>))
       ELSE threads' = [threads EXCEPT ![t].pc = "write"]
    /\ UNCHANGED <<aside, tasks, seq, users, userSeq>>

\* update_task in thread t: `Perform update`, the UPDATE, which changes the row
\* of the id when the table has one, its commit, and the return.
T_UpdateWrite(t) ==
    LET b        == threads[t].req.body
        id       == threads[t].req.id
        priority == threads[t].read
    IN  /\ threads[t].pc = "write" /\ threads[t].req.op = "PUT"
        /\ tasks' = [i \in DOMAIN tasks |->
                        IF i = id
                        THEN Row(Val(b.title), IntOfBool(DoneOf(b)), b.due_date,
                                 b.category, priority)
                        ELSE tasks[i]]
        /\ Respond(t, Response(200, "",
                               Some(TaskDict(id, Val(b.title), DoneOf(b), b.due_date,
                                             b.category, priority)),
                               <<>>))
        /\ UNCHANGED <<aside, seq, users, userSeq>>

\* delete_task in thread t: `Verificar que existe`, SELECT id and the 404.
T_DeleteExists(t) ==
    /\ threads[t].pc = "start" /\ threads[t].req.op = "DELETE"
    /\ IF threads[t].req.id \notin DOMAIN tasks
       THEN Respond(t, Response(404, "Task not found", None, <<>>))
       ELSE threads' = [threads EXCEPT ![t].pc = "write"]
    /\ UNCHANGED <<aside, tasks, seq, users, userSeq>>

\* delete_task in thread t: `Eliminar`, the DELETE, its commit, and the return.
T_DeleteWrite(t) ==
    /\ threads[t].pc = "write" /\ threads[t].req.op = "DELETE"
    /\ tasks' = [i \in DOMAIN tasks \ {threads[t].req.id} |-> tasks[i]]
    /\ Respond(t, Response(200, "deleted successfully", None, <<>>))
    /\ UNCHANGED <<aside, seq, users, userSeq>>

NextConc ==
    \/ Startup
    \/ \E t \in Threads, r \in ConcRequests : Receive(t, r)
    \/ \E t \in Threads : T_CreateTask(t)
    \/ \E t \in Threads : T_UpdateBegin(t)
    \/ \E t \in Threads : T_UpdateExists(t)
    \/ \E t \in Threads : T_UpdateWrite(t)
    \/ \E t \in Threads : T_DeleteExists(t)
    \/ \E t \in Threads : T_DeleteWrite(t)

SpecConc == Init /\ [][NextConc]_vars

---------------------------------------------------------------------------
(* POST /auth/signup in the thread pool *)

Usernames == {"alice", "bob"}
Passwords == {"pw"}

SignupRequests ==
    {ThreadRequest("SIGNUP", 0, NoBody, u, p) : u \in Usernames, p \in Passwords}

\* get_password_hash: what pwd_context.hash makes of a password is not the
\* password; the model keeps which password it was made of.
PasswordHash(p) == <<"hash", p>>

UserRow(username, hashed_password) ==
    [username |-> username, hashed_password |-> hashed_password]

\* SELECT id FROM users WHERE username = ? finds a row.
Registered(u) == \E i \in DOMAIN users : users[i].username = u

\* INTEGER PRIMARY KEY AUTOINCREMENT of table users.
NextUserId == Max({userSeq} \cup DOMAIN users) + 1

\* signup in thread t: `Check if username already exists`, the SELECT and the 400.
T_SignupExists(t) ==
    /\ threads[t].pc = "start" /\ threads[t].req.op = "SIGNUP"
    /\ IF Registered(threads[t].req.username)
       THEN Respond(t, Response(400, "Username already registered", None, <<>>))
       ELSE threads' = [threads EXCEPT ![t].pc = "write"]
    /\ UNCHANGED <<aside, tasks, seq, users, userSeq>>

\* signup in thread t: `Insert new user`, the INSERT, its commit and the
\* return.  Column username is UNIQUE: when another request has registered the
\* username since the check, the INSERT raises sqlite3.IntegrityError, which no
\* handler catches, the table stays as it is and the request ends in a 500.
T_SignupInsert(t) ==
    LET u == threads[t].req.username
    IN  /\ threads[t].pc = "write" /\ threads[t].req.op = "SIGNUP"
        /\ IF Registered(u)
           THEN /\ Respond(t, Response(500, "Internal Server Error", None, <<>>))
                /\ UNCHANGED <<users, userSeq>>
           ELSE /\ users' = [i \in DOMAIN users \cup {NextUserId} |->
                                IF i \in DOMAIN users THEN users[i]
                                ELSE UserRow(u, PasswordHash(threads[t].req.password))]
                /\ userSeq' = NextUserId
                /\ Respond(t, Response(200, "",
                                       Some([id |-> NextUserId, username |-> u]), <<>>))
        /\ UNCHANGED <<aside, tasks, seq>>

NextSignup ==
    \/ Startup
    \/ \E t \in Threads, r \in SignupRequests : Receive(t, r)
    \/ \E t \in Threads : T_SignupExists(t)
    \/ \E t \in Threads : T_SignupInsert(t)

SpecSignup == Init /\ [][NextSignup]_vars

---------------------------------------------------------------------------
(* The same handlers with more shapes of due_date, on more than one day *)

InitDates ==
    /\ \/ columns = {} /\ tasks = <<>> /\ seq = 0
       \/ /\ columns = LegacyColumns
          /\ tasks = [i \in {1} |-> [title |-> T_a, done |-> 0]]
          /\ seq = 1
    /\ NewProcess
    /\ today \in Days

NextDates ==
    \/ InitDb
    \/ \E b \in DateBodies : CreateTask(b)
    \/ \E id \in TaskIds, b \in DateBodies : UpdateTask(id, b)
    \/ \E id \in TaskIds : DeleteTask(id)
    \/ \E q \in OverdueQueries : GetTasks(q)

SpecDates == InitDates /\ [][NextDates]_vars

---------------------------------------------------------------------------
(* Notions the claims use *)

PostOk == req.op = "POST" /\ resp.status = 200
DeleteOk == req.op = "DELETE" /\ resp.status = 200

\* s is a calendar date written YYYY-MM-DD, zero-padded.
IsIsoDate(s) ==
    /\ Len(s) = 10
    /\ \A i \in {1, 2, 3, 4, 6, 7, 9, 10} : IsDigit(s[i])
    /\ s[5] = "-" /\ s[8] = "-"
    /\ StrptimeOk(s)

\* What a read of row i gives: the dictionary get_tasks makes of it.
ReadOf(t, i) ==
    TaskDict(i, t[i].title, BoolOfInt(t[i].done), t[i].due_date, t[i].category,
             t[i].priority)

\* A body that passes the checks of create_task and update_task.
Accepted(b) == b.title # None /\ ~ InvalidDate(b) /\ ~ InvalidPriority(b)

---------------------------------------------------------------------------
(* The claims *)

\* C1: over creates, deletes and restarts through init_db, the id a successful
\* POST /tasks returns is greater than every id an earlier create returned, and
\* is not the id of a row that is or was in the table, deleted or not.
C1_IdsIncreaseNeverReused ==
    [][(req'.op = "POST" /\ resp'.status = 200) =>
          LET id == Val(resp'.task).id
          IN  /\ \A i \in returned : id > i
              /\ id \notin deleted
              /\ id \notin DOMAIN tasks
              /\ id \in DOMAIN tasks']_vars

\* C1 witness: id 1 was deleted while it was the highest id, and the next create
\* returned id 2.
C1_Witness ==
    /\ PostOk /\ Val(resp.task).id = 2
    /\ 1 \in deleted /\ DOMAIN tasks = {2}

\* C2: every stored task has a priority, and it is high, medium or low.
C2_StoredPriorityValid ==
    started => \A i \in DOMAIN tasks :
                   tasks[i].priority # None /\ Val(tasks[i].priority) \in ValidPriorities

\* C3: a PUT on an existing task whose body has no priority (and is otherwise a
\* body the handler accepts) returns 200 and leaves the stored priority as it was.
C3_OmittedPriorityPreserved ==
    [][(/\ req'.op = "PUT"
        /\ req'.id \in DOMAIN tasks
        /\ req'.body.priority = None
        /\ Accepted(req'.body)) =>
          /\ resp'.status = 200
          /\ tasks'[req'.id].priority = tasks[req'.id].priority]_vars

\* C4: a POST or PUT whose priority is not high, medium or low, or whose due_date
\* is not a YYYY-MM-DD date, returns 400 and leaves the table as it was.
C4_InvalidFieldRejected ==
    [][(/\ req'.op \in {"POST", "PUT"}
        /\ req'.body.title # None
        /\ \/ /\ req'.body.priority # None
              /\ Val(req'.body.priority) \notin ValidPriorities
           \/ /\ req'.body.due_date # None
              /\ ~ IsIsoDate(Val(req'.body.due_date))) =>
          /\ resp'.status = 400
          /\ tasks' = tasks]_vars

\* C5: a DELETE of an id in the table returns 200, and a DELETE of an id that a
\* DELETE has removed before returns 404 "Task not found", whatever was created,
\* updated or deleted in between.
C5_SecondDeleteNotFound ==
    [][(req'.op = "DELETE") =>
          /\ req'.id \in DOMAIN tasks => resp'.status = 200
          /\ req'.id \in deleted =>
                resp'.status = 404 /\ resp'.detail = "Task not found"]_vars

\* C5 witness: id 1 was deleted, a task was created after that, and a further
\* DELETE of id 1 returned 404.
C5_Witness ==
    /\ req.op = "DELETE" /\ req.id = 1 /\ resp.status = 404
    /\ 1 \in deleted /\ 2 \in DOMAIN tasks

\* C6: a PUT with a body the handler accepts, for an id that is not in the
\* table, returns 404 "Task not found" and leaves every row and the id counter
\* as they were.
C6_UpdateMissingNotFound ==
    [][(/\ req'.op = "PUT"
        /\ req'.id \notin DOMAIN tasks
        /\ Accepted(req'.body)) =>
          /\ resp'.status = 404 /\ resp'.detail = "Task not found"
          /\ tasks' = tasks /\ seq' = seq]_vars

\* C6 witness: a PUT without priority for a deleted id returned 404 while another
\* row was in the table.
C6_Witness ==
    /\ req.op = "PUT" /\ resp.status = 404 /\ req.body.priority = None
    /\ req.id \in deleted /\ DOMAIN tasks # {}

\* C7 as stated: a POST without title returns 422 and inserts nothing, and every
\* POST with a title returns 200 and inserts a row under a new id.
C7_CreateAlwaysSucceedsWithTitle ==
    [][(req'.op = "POST") =>
          IF req'.body.title = None
          THEN resp'.status = 422 /\ tasks' = tasks
          ELSE /\ resp'.status = 200
               /\ Val(resp'.task).id \notin DOMAIN tasks
               /\ DOMAIN tasks' = DOMAIN tasks \cup {Val(resp'.task).id}]_vars

\* C7 as amended: a POST without title returns 422 and inserts nothing; a POST
\* with a title (the empty string included) either returns 400 and inserts
\* nothing, which happens only for a body that carries a due_date or a priority,
\* and never when these are a YYYY-MM-DD date and one of high, medium, low; or it
\* returns 200 and inserts exactly one row, under an id no row has or had.
C7_CreateSucceedsUnlessRejected ==
    [][(req'.op = "POST") =>
          LET b == req'.body
          IN  IF b.title = None
              THEN resp'.status = 422 /\ tasks' = tasks
              ELSE \/ /\ resp'.status = 400 /\ tasks' = tasks
                      /\ \/ b.due_date # None /\ ~ IsIsoDate(Val(b.due_date))
                         \/ b.priority # None /\ Val(b.priority) \notin ValidPriorities
                   \/ /\ resp'.status = 200
                      /\ LET id == Val(resp'.task).id
                         IN  /\ id \notin DOMAIN tasks \cup returned \cup deleted
                             /\ DOMAIN tasks' = DOMAIN tasks \cup {id}
                             /\ \A i \in DOMAIN tasks : tasks'[i] = tasks[i]
                             /\ tasks'[id].title = Val(b.title)]_vars

\* C7 witness: a POST with the empty title succeeded next to an existing row.
C7_Witness ==
    /\ PostOk /\ req.body.title = Some(<<>>)
    /\ Val(resp.task).id = 2 /\ DOMAIN tasks = {1, 2}
    /\ tasks[2].title = <<>>

\* C8: a DELETE that returns 200 removes the row of that id and no other and
\* changes no other row, and a GET /tasks without parameters right after it
\* returns the remaining rows, each once, and not the deleted id.
C8_DeleteRemovesOnlyThatRow ==
    [][/\ (req'.op = "DELETE" /\ resp'.status = 200) =>
             /\ req'.id \in DOMAIN tasks
             /\ DOMAIN tasks' = DOMAIN tasks \ {req'.id}
             /\ \A i \in DOMAIN tasks' : tasks'[i] = tasks[i]
       /\ (DeleteOk /\ req'.op = "GET" /\ req'.query = NoParams) =>
             /\ Len(resp'.list) = Cardinality(DOMAIN tasks)
             /\ {resp'.list[k] : k \in 1..Len(resp'.list)}
                   = {ReadOf(tasks, i) : i \in DOMAIN tasks}
             /\ \A k \in 1..Len(resp'.list) : resp'.list[k].id # req.id]_vars

\* C8 witness: id 1 was deleted and the row of id 2 is still there.
C8_Witness ==
    /\ DeleteOk /\ req.id = 1
    /\ DOMAIN tasks = {2} /\ returned = {1, 2}

\* C9: right after a successful create, a read of the returned id gives the body
\* of the create with done false, priority medium, due_date null and category
\* null for the fields the body omits.
C9_ReadAfterCreate ==
    [][(req'.op = "POST" /\ resp'.status = 200) =>
          LET b == req'.body
              id == Val(resp'.task).id
          IN  ReadOf(tasks', id) =
                  TaskDict(id, Val(b.title),
                           IF b.done = None THEN FALSE ELSE Val(b.done),
                           b.due_date, b.category,
                           IF b.priority = None THEN Some("medium") ELSE b.priority)]_vars

\* The ids of a list of tasks, in order.
IdsOf(list) == [k \in 1..Len(list) |-> list[k].id]

\* C10 as stated: GET /tasks without parameters returns every stored task once,
\* in ascending id order.
C10_ListInIdOrder ==
    (req.op = "GET" /\ req.query = NoParams) =>
        /\ {resp.list[k] : k \in 1..Len(resp.list)} = {ReadOf(tasks, i) : i \in DOMAIN tasks}
        /\ Len(resp.list) = Cardinality(DOMAIN tasks)
        /\ \A k \in 1..(Len(resp.list) - 1) : resp.list[k].id < resp.list[k + 1].id

\* C10 as amended: GET /tasks without parameters returns every stored task once,
\* ordered by priority (high, then medium, then low, then anything else) and,
\* within a priority, by due_date ascending with the tasks without one first.
C10_ListInPriorityOrder ==
    (req.op = "GET" /\ req.query = NoParams) =>
        /\ {resp.list[k] : k \in 1..Len(resp.list)} = {ReadOf(tasks, i) : i \in DOMAIN tasks}
        /\ Len(resp.list) = Cardinality(DOMAIN tasks)
        /\ \A k \in 1..(Len(resp.list) - 1) :
              LET a == resp.list[k]
                  b == resp.list[k + 1]
                  rank == [p \in {"high", "medium", "low"} |->
                              IF p = "high" THEN 1 ELSE IF p = "medium" THEN 2 ELSE 3]
                  ra == IF a.priority \subseteq DOMAIN rank /\ a.priority # None
                        THEN rank[Val(a.priority)] ELSE 4
                  rb == IF b.priority \subseteq DOMAIN rank /\ b.priority # None
                        THEN rank[Val(b.priority)] ELSE 4
              IN  \/ ra < rb
                  \/ /\ ra = rb
                     /\ \/ a.due_date = b.due_date
                        \/ a.due_date = None
                        \/ /\ a.due_date # None /\ b.due_date # None
                           /\ TextLess(Val(a.due_date), Val(b.due_date))

\* C10 witness: the list holds the high-priority task of id 2 before the task of id 1.
C10_Witness ==
    /\ req.op = "GET" /\ req.query = NoParams
    /\ IdsOf(resp.list) = <<2, 1>>
    /\ resp.list[1].priority = Some("high")

\* C11: with requests running at the same time, a PUT that returns 200 leaves
\* the row of its id in the table with the fields it returns; a PUT whose id
\* another request deleted never returns 200.
C11_PutOkLeavesRecord ==
    [][\A t \in Threads :
          (/\ threads[t].pc # "done"
           /\ threads'[t].pc = "done"
           /\ threads'[t].req.op = "PUT"
           /\ threads'[t].resp.status = 200) =>
              /\ threads'[t].req.id \in DOMAIN tasks'
              /\ ReadOf(tasks', threads'[t].req.id) = Val(threads'[t].resp.task)]_vars

\* Date a is an earlier day than date b.
DateBefore(a, b) ==
    \/ a.y < b.y
    \/ a.y = b.y /\ a.m < b.m
    \/ a.y = b.y /\ a.m = b.m /\ a.d < b.d

\* C12: GET /tasks?filter_by=overdue, whatever its other parameters, returns no
\* task that is done, no task without due_date, and no task whose due_date is
\* today or a later day.
C12_OverdueOnlyPastAndPending ==
    (req.op = "GET" /\ req.query.filter_by = Some("overdue")) =>
        \A k \in 1..Len(resp.list) :
            LET t == resp.list[k]
            IN  /\ ~ t.done
                /\ t.due_date # None
                /\ StrptimeOk(Val(t.due_date)) =>
                       DateBefore(StrptimeDate(Val(t.due_date)), today)

\* C13: every stored due_date is NULL or a zero-padded YYYY-MM-DD calendar date.
C13_StoredDueDateIsIso ==
    started =>
        \A i \in DOMAIN tasks :
            tasks[i].due_date = None \/ IsIsoDate(Val(tasks[i].due_date))

\* C14: a PUT that returns 200 replaces the row of its id: the title is the
\* body's, done, due_date and category are the body's or, where the body omits
\* them, false, null and null; the row keeps its id, the response names it, and
\* no other row and no id changes.
C14_PutReplacesMutableFields ==
    [][(req'.op = "PUT" /\ resp'.status = 200) =>
          LET id == req'.id
              b  == req'.body
          IN  /\ id \in DOMAIN tasks
              /\ DOMAIN tasks' = DOMAIN tasks
              /\ \A i \in DOMAIN tasks \ {id} : tasks'[i] = tasks[i]
              /\ seq' = seq
              /\ tasks'[id].title = Val(b.title)
              /\ tasks'[id].done = (IF b.done = Some(TRUE) THEN 1 ELSE 0)
              /\ tasks'[id].due_date = b.due_date
              /\ tasks'[id].category = b.category
              /\ Val(resp'.task).id = id
              /\ Val(resp'.task).done = (b.done = Some(TRUE))
              /\ Val(resp'.task).due_date = b.due_date
              /\ Val(resp'.task).category = b.category]_vars

\* C14 witness: a PUT that carries only a title returned 200 for a row that had
\* priority high, which only a request that set it could have stored; the row is
\* now pending, without due_date and category, and still of priority high.
C14_Witness ==
    /\ req.op = "PUT" /\ resp.status = 200
    /\ req.body = Body(Some(T_a), None, None, None, None)
    /\ req.id = 2 /\ 1 \in DOMAIN tasks
    /\ tasks[2] = Row(T_a, 0, None, None, Some("high"))

\* The usernames of a users table.
UsernamesOf(table) == {table[i].username : i \in DOMAIN table}

\* C15: with signups running at the same time, no two rows of users ever have
\* the same username, and a signup that ends while its username is registered
\* to another request's user returns 400 "Username already registered" and
\* leaves the users table as it was.
C15_UsernamesUnique ==
    [][/\ \A i, j \in DOMAIN users' : users'[i].username = users'[j].username => i = j
       /\ \A t \in Threads :
             (/\ threads[t].req.op = "SIGNUP"
              /\ threads[t].pc # "done"
              /\ threads'[t].pc = "done"
              /\ threads[t].req.username \in UsernamesOf(users)) =>
                 /\ threads'[t].resp.status = 400
                 /\ threads'[t].resp.detail = "Username already registered"
                 /\ users' = users /\ userSeq' = userSeq]_vars

\* C17: GET /stats on an empty tasks table, one that never held a row or one
\* that deletes emptied, returns 200 with total_tasks 0, completion_rate 0, every
\* other count 0 and both groupings empty.
C17_StatsOfEmptyStore ==
    (req.op = "GET /stats" /\ DOMAIN tasks = {}) =>
        /\ resp.status = 200
        /\ resp.task # None
        /\ LET stats == Val(resp.task)
           IN  /\ stats.total_tasks = 0
               /\ stats.completion_rate = 0
               /\ stats.completed_tasks = 0
               /\ stats.pending_tasks = 0
               /\ stats.overdue_tasks = 0
               /\ stats.high_priority_tasks = 0
               /\ DOMAIN stats.categories = {}
               /\ DOMAIN stats.priorities = {}

\* C17 witness: GET /stats answered on a table that held two rows, both deleted.
C17_Witness ==
    /\ req.op = "GET /stats" /\ resp.status = 200
    /\ DOMAIN tasks = {}
    /\ deleted = {1, 2}

\* text contains q, character for character.
Contains(text, q) ==
    \E k \in 0..(Len(text) - Len(q)) : SubSeq(text, k + 1, k + Len(q)) = q

\* C18: GET /search returns 200 for every q and every in_title and in_category,
\* both false included, with results_count the number of results, each of which
\* contains q in its title when in_title is set or in its category when
\* in_category is set.
C18_SearchNeverFails ==
    (req.op = "GET /search") =>
        /\ resp.status = 200
        /\ resp.task # None
        /\ Val(resp.task).results_count = Len(resp.list)
        /\ \A k \in 1..Len(resp.list) :
              \/ req.query.in_title /\ Contains(resp.list[k].title, req.query.q)
              \/ /\ req.query.in_category
                 /\ resp.list[k].category # None
                 /\ Contains(Val(resp.list[k].category), req.query.q)

\* The sum of the values of a dict.
RECURSIVE SumOf(_)
SumOf(f) ==
    IF DOMAIN f = {} THEN 0
    ELSE LET k == CHOOSE x \in DOMAIN f : TRUE
         IN  f[k] + SumOf([x \in DOMAIN f \ {k} |-> f[x]])

\* C19: whatever the table holds, GET /stats reports completed_tasks +
\* pending_tasks = total_tasks, overdue_tasks <= pending_tasks,
\* high_priority_tasks <= pending_tasks, and counts in priorities that add up
\* to total_tasks.
C19_StatsCountsConsistent ==
    (req.op = "GET /stats" /\ resp.status = 200) =>
        LET stats == Val(resp.task)
        IN  /\ stats.completed_tasks + stats.pending_tasks = stats.total_tasks
            /\ stats.overdue_tasks <= stats.pending_tasks
            /\ stats.high_priority_tasks <= stats.pending_tasks
            /\ SumOf(stats.priorities) = stats.total_tasks

\* C19 witness: GET /stats on two rows, one done and one pending and overdue,
\* of two different priorities.
C19_Witness ==
    /\ req.op = "GET /stats" /\ resp.status = 200
    /\ Val(resp.task).total_tasks = 2
    /\ Val(resp.task).completed_tasks = 1
    /\ Val(resp.task).overdue_tasks = 1
    /\ Cardinality(DOMAIN Val(resp.task).priorities) = 2

====
